---- MODULE Spec2Model ----
(***************************************************************************)
(* Health-monitor backend: alert lifecycle of the document-store (Mongo)   *)
(* and relational (Postgres) editions of the /api/alerts routes, modelled  *)
(* as one state machine over the alert store (Spec), the threshold         *)
(* evaluators and risk scorers called on given arguments (SpecCalc), the   *)
(* reading ingestion, delete and settings routes (SpecIngest), the socket  *)
(* sessions with the routes that emit (SpecSocket), both editions given    *)
(* the same alert requests (SpecBoth), and connectDB of the Postgres       *)
(* database module (SpecConnect).                                          *)
(***************************************************************************)
EXTENDS Integers, Sequences, FiniteSets, TLC

(* ---- bounds ---- *)
MaxAlerts == 2
MaxOps == 3
MaxRecent == 10
MaxOlder == 1

(* ---- sentinels for unset document fields ---- *)
NoId == 0
NoTime == -1
NoUser == "none"
NoText == "none"
NoValue == -1
EmptyNotes == ""

(* ---- request inputs ---- *)
AlertIds == 1..MaxAlerts
UnknownId == MaxAlerts + 1
Patients == {"P1", "P2"}
Registered == {"P1"}
Candidates == {[type |-> "heartRate", severity |-> "warning", value |-> 105],
               [type |-> "heartRate", severity |-> "critical", value |-> 130],
               [type |-> "spo2", severity |-> "critical", value |-> 88]}
Users == {"u1"}
Methods == {"manual"}
NotesIn == {NoText, "ok"}
Levels == {2}
EscalatedTos == {"dr"}
Reasons == {"noack"}
(* sendNotification resolves to a status sent or failed, or rejects *)
NotifyOutcomes == {"sent", "failed", "throws"}
Editions == {"mongo", "pg"}

Bodies ==
  [alertId : AlertIds \cup {NoId}, patientId : Patients, cand : Candidates]

NoEscalation ==
  [level |-> 0, escalatedAt |-> NoTime, escalatedTo |-> NoText, reason |-> NoText]

NoResolution ==
  [resolvedBy |-> NoUser, resolvedAt |-> NoTime, method |-> NoText, notes |-> NoText]

SeverityRank(s) ==
  CASE s = "info" -> 0
    [] s = "warning" -> 1
    [] s = "critical" -> 2
    [] s = "emergency" -> 3

VARIABLES
  edition,    \* which backend the server was started with
  alerts,     \* alert store: alertId -> row (alertId is unique in both editions)
  inflight,   \* Mongo POST /api/alerts requests that saved and await notification
  now,        \* request clock: Date.now() of the next request
  last,       \* outcome of the most recently completed request
  readings,   \* HealthData collection, in insertion order
  patients,   \* Patient collection: patientId -> lastReading
  devices,    \* Device collection: deviceId -> lastSeen, status, lastData
  calc,       \* a model method or service function under direct call: its
              \* arguments, the value it returned and the one before that
  db,         \* database module: dbConnected, connectPromise, callers of connectDB
  sessions,   \* Socket.IO sessions: connected or not, and the rooms joined
  twin        \* the relational edition serving the same alert requests

vars == <<edition, alerts, inflight, now, last, readings, patients, devices,
          calc, db, sessions, twin>>
quietVars == <<calc, db, twin>>
alertVars == <<edition, alerts, inflight>>
dataVars == <<readings, patients, devices>>

serverVars == <<edition, alerts, inflight, now, last, readings, patients, devices>>

NoEvents == <<>>

(* the pool is connected: connectDB has resolved to true *)
(* callers of connectDB(): the server start, the seed script, a late caller *)
Callers == {"c1", "c2", "c3"}

DbReady ==
  [configured |-> TRUE, dbConnected |-> TRUE, connectPromise |-> "true",
   pc |-> "done", attempts |-> 1, retryCount |-> 0,
   callers |-> [c \in Callers |-> "none"], lastQuery |-> "none"]

Sessions == {"s1", "s2"}

(* no socket is connected *)
NoSessions == [s \in Sessions |-> [connected |-> FALSE, rooms |-> {}, received |-> <<>>]]

(* no second edition is run alongside: its alerts table is empty and it *)
(* has answered nothing                                                  *)
NoTwin == [alerts |-> <<>>, code |-> 0]

(* no function has been called directly *)
NoOut == [status |-> "none"]
NoCalc == [fn |-> "none", in |-> [kind |-> "none"], out |-> NoOut,
           prev |-> [fn |-> "none", out |-> NoOut]]

(* what the caller and the collaborators saw of one request: the route, its   *)
(* :alertId and body, the HTTP status, the events emitted through io and the  *)
(* outcome of sendNotification ("none" when it was not called), and the      *)
(* clock reading at which the request arrived                                 *)
Response(op, id, args, code, events, notified, at) ==
  [op |-> op, alertId |-> id, args |-> args, code |-> code, events |-> events,
   notified |-> notified, at |-> at]

Args(userId, method, notes, level, escalatedTo, reason) ==
  [userId |-> userId, method |-> method, notes |-> notes, level |-> level,
   escalatedTo |-> escalatedTo, reason |-> reason]

NoArgs == Args(NoUser, NoText, NoText, 0, NoText, NoText)

(* the handler without its `if (!alert)` guard: calling a method of null     *)
(* throws, and the route's catch answers 500                                 *)
NotFoundUnchecked(op, id, args, at) == Response(op, id, args, 500, NoEvents, "none", at)

(* `if (!alert) return res.status(404)`: nothing was written, emitted or sent *)
NotFound(op, id, args, at) == Response(op, id, args, 404, NoEvents, "none", at)

Event(name, room, payload) ==
  [name |-> name, room |-> room, payload |-> payload]

(* io.emit reaches every connected socket, io.to('patient-' + id).emit the *)
(* sockets that are in that room; rooms are named by their patient id      *)
Receives(session, ev) ==
  session.connected /\ (ev.room = "all" \/ ev.room \in session.rooms)

(* what each socket received from the events of one request: event name and *)
(* the patient the payload is about                                         *)
Delivered(ss, events) ==
  [s \in Sessions |->
     LET got == SelectSeq(events, LAMBDA ev : Receives(ss[s], ev))
     IN [ss[s] EXCEPT !.received =
           [i \in 1..Len(got) |-> [name |-> got[i].name,
                                   patientId |-> got[i].payload.patientId]]]]

(* the emits of the request answered in this step *)
Deliver ==
  sessions' = IF last'.events = NoEvents THEN sessions
              ELSE Delivered(sessions, last'.events)

(* new Alert(alertData): schema defaults applied to the request body *)
NewAlert(id, patientId, type, severity, value, t) ==
  [alertId |-> id, patientId |-> patientId, type |-> type,
   severity |-> severity, status |-> "active", value |-> value,
   createdAt |-> t,
   acknowledgedAt |-> NoTime, acknowledgedBy |-> NoUser,
   resolvedAt |-> NoTime, resolution |-> NoResolution,
   escalation |-> NoEscalation]

(* alertSchema.methods.acknowledge *)
acknowledge(a, userId, t) ==
  [a EXCEPT !.status = "acknowledged",
            !.acknowledgedAt = t,
            !.acknowledgedBy = userId]

(* resolve with method and notes stored in each other's place *)
resolveSwapped(a, userId, method, notes, t) ==
  [a EXCEPT !.status = "resolved",
            !.resolvedAt = t,
            !.resolution = [resolvedBy |-> userId, resolvedAt |-> t,
                            method |-> notes, notes |-> method]]

(* alertSchema.methods.resolve; notes defaults to '' when absent *)
resolve(a, userId, method, notes, t) ==
  [a EXCEPT !.status = "resolved",
            !.resolvedAt = t,
            !.resolution = [resolvedBy |-> userId, resolvedAt |-> t,
                            method |-> method,
                            notes |-> IF notes = NoText THEN EmptyNotes ELSE notes]]

(* escalate that sets a fixed lower severity instead of emergency *)
escalateToWarning(a, level, escalatedTo, reason, t) ==
  [a EXCEPT !.status = "escalated",
            !.escalation = [level |-> level, escalatedAt |-> t,
                            escalatedTo |-> escalatedTo, reason |-> reason],
            !.severity = "warning"]

(* alertSchema.methods.escalate *)
escalate(a, level, escalatedTo, reason, t) ==
  [a EXCEPT !.status = "escalated",
            !.escalation = [level |-> level, escalatedAt |-> t,
                            escalatedTo |-> escalatedTo, reason |-> reason],
            !.severity = "emergency"]

Stored == DOMAIN alerts

(* Alert ids are opaque strings: a new id is the least one not in the store *)
FreshId == CHOOSE i \in 1..(MaxAlerts + 1) : i \notin Stored /\ \A j \in 1..(i - 1) : j \in Stored

InsertInto(store, a) ==
  [i \in DOMAIN store \cup {a.alertId} |-> IF i = a.alertId THEN a ELSE store[i]]

Insert(a) == InsertInto(alerts, a)

(* ---- vital signs; temperatures are in tenths of a degree Celsius ---- *)
NoBloodPressure == [systolic |-> NoValue, diastolic |-> NoValue]

NormalReading ==
  [heartRate |-> 75, temperature |-> 365, spo2 |-> 98, bloodPressure |-> NoBloodPressure]

SevereReading ==
  [heartRate |-> 130, temperature |-> 390, spo2 |-> 88, bloodPressure |-> NoBloodPressure]

NoReading ==
  [timestamp |-> NoTime, heartRate |-> NoValue, temperature |-> NoValue,
   spo2 |-> NoValue, bloodPressure |-> NoBloodPressure]

Devices == {"D1"}

(* a comparison with an undefined operand is false in JavaScript *)
Gt(x, y) == x # NoValue /\ y # NoValue /\ x > y
Lt(x, y) == x # NoValue /\ y # NoValue /\ x < y

(* patientSchema.alertSettings defaults; the schema declares no      *)
(* bloodPressure.systolic / diastolic, so these read as undefined    *)
DefaultAlertSettings ==
  [heartRate |-> [min |-> 60, max |-> 100],
   temperature |-> [min |-> 361, max |-> 378],
   spo2 |-> [min |-> 95],
   bloodPressure |-> [systolicMax |-> 140, diastolicMax |-> 90,
                      systolic |-> NoValue, diastolic |-> NoValue]]

Candidate(type, severity) == [type |-> type, severity |-> severity]

(* patientSchema.methods.isAbnormalReading: the destructured `bloodPressure` *)
(* is the settings object, which shadows reading.bloodPressure                *)
isAbnormalReading(alertSettings, reading) ==
  LET heartRate == alertSettings.heartRate
      temperature == alertSettings.temperature
      spo2 == alertSettings.spo2
      bloodPressure == alertSettings.bloodPressure
      hr == IF Lt(reading.heartRate, heartRate.min) \/ Gt(reading.heartRate, heartRate.max)
              THEN <<Candidate("heartRate", "critical")>> ELSE <<>>
      tp == IF Lt(reading.temperature, temperature.min)
               \/ Gt(reading.temperature, temperature.max)
              THEN <<Candidate("temperature",
                               IF Gt(reading.temperature, 380) THEN "critical" ELSE "warning")>>
              ELSE <<>>
      ox == IF Lt(reading.spo2, spo2.min)
              THEN <<Candidate("spo2", "critical")>> ELSE <<>>
      bp == IF Gt(bloodPressure.systolic, bloodPressure.systolicMax)
               \/ Gt(bloodPressure.diastolic, bloodPressure.diastolicMax)
              THEN <<Candidate("bloodPressure", "critical")>> ELSE <<>>
  IN hr \o tp \o ox \o bp

(* healthDataSchema validators run by save() *)
InRange(v, lo, hi) == v >= lo /\ v <= hi
ValidHealthData(d) ==
  /\ d.heartRate # NoValue /\ InRange(d.heartRate, 0, 250)
  /\ d.temperature # NoValue /\ InRange(d.temperature, 300, 450)
  /\ d.spo2 # NoValue /\ InRange(d.spo2, 0, 100)
  /\ d.bloodPressure.systolic = NoValue \/ InRange(d.bloodPressure.systolic, 60, 250)
  /\ d.bloodPressure.diastolic = NoValue \/ InRange(d.bloodPressure.diastolic, 40, 150)

(* ---- healthDataSchema.methods.assessStatus ---- *)
(* thresholds are keyed by vital; a band a config does not give is undefined *)
defaultThresholds ==
  [heartRate |-> [min |-> 60, max |-> 100, criticalMax |-> 120, criticalMin |-> 40],
   temperature |-> [min |-> 361, max |-> 378, criticalMax |-> 385, criticalMin |-> 350],
   spo2 |-> [min |-> 95, criticalMin |-> 90],
   bloodPressure |-> [systolicMax |-> 140, diastolicMax |-> 90,
                      systolicCritical |-> 180, diastolicCritical |-> 120]]

(* thresholds null, undefined or {}: no key of its own *)
NoThresholds == [k \in {} |-> [min |-> NoValue]]

(* { ...defaultThresholds, ...thresholds }: a shallow merge, so a vital the *)
(* config names replaces the default object of that vital as a whole        *)
MergeThresholds(thresholds) ==
  [k \in DOMAIN defaultThresholds |->
     IF k \in DOMAIN thresholds THEN thresholds[k] ELSE defaultThresholds[k]]

(* a warning that overwrites whatever status the earlier vitals left *)
AssessStepOverwrite(acc, type, critical, warning) ==
  IF critical
    THEN [status |-> "critical", alerts |-> Append(acc.alerts, Candidate(type, "critical"))]
  ELSE IF warning
    THEN [status |-> "warning", alerts |-> Append(acc.alerts, Candidate(type, "warning"))]
  ELSE acc

(* one `if (critical) ... else if (warning) ...` block of assessStatus *)
AssessStep(acc, type, critical, warning) ==
  IF critical
    THEN [status |-> "critical", alerts |-> Append(acc.alerts, Candidate(type, "critical"))]
  ELSE IF warning
    THEN [status |-> IF acc.status # "critical" THEN "warning" ELSE acc.status,
          alerts |-> Append(acc.alerts, Candidate(type, "warning"))]
  ELSE acc

assessStatus(d, thresholds) ==
  LET t == MergeThresholds(thresholds)
      s0 == [status |-> "normal", alerts |-> <<>>]
      s1 == AssessStep(s0, "heartRate",
                       Gt(d.heartRate, t.heartRate.criticalMax)
                         \/ Lt(d.heartRate, t.heartRate.criticalMin),
                       Gt(d.heartRate, t.heartRate.max) \/ Lt(d.heartRate, t.heartRate.min))
      s2 == AssessStep(s1, "temperature",
                       Gt(d.temperature, t.temperature.criticalMax)
                         \/ Lt(d.temperature, t.temperature.criticalMin),
                       Gt(d.temperature, t.temperature.max)
                         \/ Lt(d.temperature, t.temperature.min))
      s3 == AssessStep(s2, "spo2",
                       Lt(d.spo2, t.spo2.criticalMin),
                       Lt(d.spo2, t.spo2.min))
      s4 == AssessStep(s3, "bloodPressure",
                       Gt(d.bloodPressure.systolic, t.bloodPressure.systolicCritical)
                         \/ Gt(d.bloodPressure.diastolic, t.bloodPressure.diastolicCritical),
                       Gt(d.bloodPressure.systolic, t.bloodPressure.systolicMax)
                         \/ Gt(d.bloodPressure.diastolic, t.bloodPressure.diastolicMax))
  IN s4

(* ---- predictionService.predictHealthRisk ---- *)
RECURSIVE SumOf(_, _)
SumOf(f, seq) == IF seq = <<>> THEN 0 ELSE f[Head(seq)] + SumOf(f, Tail(seq))

Min(a, b) == IF a < b THEN a ELSE b
Max(a, b) == IF a > b THEN a ELSE b

Slice(seq, from, to) ==
  IF from > Min(to, Len(seq)) THEN <<>> ELSE SubSeq(seq, from, Min(to, Len(seq)))

OrZero(v) == IF v = NoValue THEN 0 ELSE v

Factor(name, severity) == [factor |-> name, severity |-> severity]

(* averages are compared as sums: avg > c  <=>  sum > c * n *)
RiskContributions(h) ==
  LET recent == Slice(h, 1, 10)
      older == Slice(h, 11, 20)
      n == Len(recent)
      hrOf == [r \in {h[i] : i \in 1..Len(h)} |-> OrZero(r.heartRate)]
      tempOf == [r \in {h[i] : i \in 1..Len(h)} |-> OrZero(r.temperature)]
      spo2Of == [r \in {h[i] : i \in 1..Len(h)} |-> OrZero(r.spo2)]
      sysOf == [r \in {h[i] : i \in 1..Len(h)} |-> r.bloodPressure.systolic]
      diaOf == [r \in {h[i] : i \in 1..Len(h)} |-> r.bloodPressure.diastolic]
      sumHr == SumOf(hrOf, recent)
      sumOlder == SumOf(hrOf, older)
      sumTemp == SumOf(tempOf, recent)
      sumSpo2 == SumOf(spo2Of, recent)
      recentBP == SelectSeq(recent, LAMBDA r : r.bloodPressure.systolic # NoValue
                                               /\ r.bloodPressure.systolic # 0)
      nBP == Len(recentBP)
      \* one undefined diastolic makes the average NaN, and NaN > 90 is false
      diaKnown == \A i \in 1..nBP : recentBP[i].bloodPressure.diastolic # NoValue
      alertCount == Len(SelectSeq(recent, LAMBDA r : r.status \in {"critical", "warning"}))
      heart == IF sumHr > 100 * n THEN <<[w |-> 20, f |-> Factor("Elevated Heart Rate", "medium")]>>
               ELSE IF sumHr < 60 * n THEN <<[w |-> 15, f |-> Factor("Low Heart Rate", "medium")]>>
               ELSE <<>>
      trend == IF Len(older) > 0 /\ 10 * sumHr * Len(older) > 11 * sumOlder * n
                 THEN <<[w |-> 10, f |-> Factor("Heart Rate Increasing", "low")]>> ELSE <<>>
      temp == IF sumTemp > 375 * n THEN <<[w |-> 25, f |-> Factor("Fever Detected", "high")]>>
              ELSE IF sumTemp > 372 * n
                     THEN <<[w |-> 10, f |-> Factor("Elevated Temperature", "low")]>>
              ELSE <<>>
      oxy == IF sumSpo2 < 92 * n THEN <<[w |-> 30, f |-> Factor("Low Blood Oxygen", "critical")]>>
             ELSE IF sumSpo2 < 95 * n
                    THEN <<[w |-> 15, f |-> Factor("Reduced Oxygen Saturation", "medium")]>>
             ELSE <<>>
      press == IF nBP > 0 /\ (SumOf(sysOf, recentBP) > 140 * nBP
                               \/ (diaKnown /\ SumOf(diaOf, recentBP) > 90 * nBP))
                 THEN <<[w |-> 20, f |-> Factor("High Blood Pressure", "medium")]>> ELSE <<>>
      freq == IF 10 * alertCount > 3 * n
                THEN <<[w |-> 15, f |-> Factor("Frequent Alerts", "medium")]>> ELSE <<>>
  IN IF Len(h) > 0
       THEN heart \o trend \o temp \o oxy \o press \o freq
       ELSE <<[w |-> 0, f |-> Factor("Insufficient Data", "info")]>>

RiskLevelOf(riskScore) ==
  IF riskScore >= 70 THEN "critical"
  ELSE IF riskScore >= 50 THEN "high"
  ELSE IF riskScore >= 30 THEN "medium"
  ELSE "low"

(* only the largest contribution counts *)
TotalWeightLargest(c) ==
  IF c = <<>> THEN 0
  ELSE CHOOSE w \in {c[i].w : i \in 1..Len(c)} : \A i \in 1..Len(c) : c[i].w <= w

(* riskScore += weight, once per contribution *)
TotalWeight(c) ==
  LET weightOf == [x \in {c[i] : i \in 1..Len(c)} |-> x.w]
  IN SumOf(weightOf, c)

(* the score passed on as accumulated *)
ClampNone(riskScore) == riskScore

(* Math.min(Math.max(riskScore, 0), 100) *)
Clamp(riskScore) == Min(Max(riskScore, 0), 100)

RecommendationOf(riskLevel) ==
  CASE riskLevel = "critical" -> "URGENT: Immediate medical attention required"
    [] riskLevel = "high" -> "High priority: Schedule immediate consultation"
    [] riskLevel = "medium" -> "Schedule follow-up appointment within 24-48 hours"
    [] OTHER -> "Continue regular monitoring"

(* confidence is kept in hundredths: 0.85 -> 85, 0.5 -> 50; predictionId is *)
(* built from Date.now() and Math.random(), timestamp is new Date()          *)
predictHealthRisk(patientId, h, t, rnd) ==
  LET c == RiskContributions(h)
      riskScore == Clamp(TotalWeight(c))
  IN [predictionId |-> <<t, rnd>>,
      patientId |-> patientId,
      riskLevel |-> RiskLevelOf(riskScore),
      riskScore |-> riskScore,
      factors |-> [i \in 1..Len(c) |-> c[i].f],
      recommendation |-> RecommendationOf(RiskLevelOf(riskScore)),
      confidence |-> IF Len(h) >= 10 THEN 85 ELSE 50,
      timestamp |-> t]

(* values Math.random() can return *)
Nonces == {"r1", "r2"}

(* ---- Postgres edition: calculateRiskScore(healthData) ---- *)
Weighted(name, weight) == [factor |-> name, weight |-> weight]

(* a column that is NULL in the row reads as null, and null < c compares *)
(* 0 < c (null > c compares 0 > c, false for the positive bounds used)  *)
LtNull(x, c) == OrZero(x) < c

calculateRiskScore(healthData) ==
  LET heart == IF Gt(healthData.heartRate, 100) THEN <<Weighted("High Heart Rate", 30)>>
               ELSE IF Gt(healthData.heartRate, 90)
                      THEN <<Weighted("Elevated Heart Rate", 15)>>
               ELSE IF LtNull(healthData.heartRate, 50) THEN <<Weighted("Low Heart Rate", 20)>>
               ELSE <<>>
      temp == IF Gt(healthData.temperature, 380) THEN <<Weighted("Fever", 25)>>
              ELSE IF Gt(healthData.temperature, 375) THEN <<Weighted("Slight Fever", 10)>>
              ELSE <<>>
      oxy == IF LtNull(healthData.spo2, 90) THEN <<Weighted("Low Oxygen", 35)>>
             ELSE IF LtNull(healthData.spo2, 95) THEN <<Weighted("Below Normal Oxygen", 15)>>
             ELSE <<>>
      sys == IF Gt(healthData.bloodPressure.systolic, 140)
               THEN <<Weighted("High Systolic BP", 20)>> ELSE <<>>
      dia == IF Gt(healthData.bloodPressure.diastolic, 90)
               THEN <<Weighted("High Diastolic BP", 15)>> ELSE <<>>
      factors == heart \o temp \o oxy \o sys \o dia
      weightOf == [x \in {factors[i] : i \in 1..Len(factors)} |-> x.weight]
      riskScore == SumOf(weightOf, factors)
  IN [score |-> Min(riskScore, 100),
      level |-> IF riskScore >= 70 THEN "critical"
                ELSE IF riskScore >= 40 THEN "high"
                ELSE IF riskScore >= 20 THEN "moderate"
                ELSE "low",
      factors |-> factors]

Started ==
  /\ edition \in Editions
  /\ alerts = [i \in {} |-> NewAlert(i, "P1", "heartRate", "warning", 105, 0)]
  /\ inflight = {}
  /\ now = 0
  /\ last = Response("none", NoId, NoArgs, 0, NoEvents, "none", NoTime)
  /\ readings = <<>>
  /\ patients = [p \in Registered |->
                  [alertSettings |-> DefaultAlertSettings, lastReading |-> NoReading]]
  /\ devices = [d \in Devices |->
                 [lastSeen |-> 0, status |-> "offline", lastData |-> NoReading]]

Init == Started /\ calc = NoCalc /\ db = DbReady /\ sessions = NoSessions /\ twin = NoTwin

(* ---- Mongo edition: POST /api/alerts, up to `await alert.save()` ---- *)
(* alertId is `required`; the pre('save') hook fills a missing one.  Whether the *)
(* built-in validation runs before that hook decides between a rejected save    *)
(* and a generated id, so both outcomes are kept.  A duplicate alertId breaks   *)
(* the unique index.                                                            *)
MongoPostSaveFailHandler(b) ==
  /\ edition = "mongo"
  /\ now < MaxOps
  /\ b.alertId = NoId \/ b.alertId \in Stored
  /\ now' = now + 1
  /\ last' = Response("create", b.alertId, NoArgs, 500, NoEvents, "none", now)
  /\ Deliver
  /\ UNCHANGED <<calc, db, edition, alerts, inflight, dataVars>>

(* the request served by the Mongo edition alone *)
MongoPostSaveFail(b) == MongoPostSaveFailHandler(b) /\ UNCHANGED twin

MongoPostSaveHandler(b, id) ==
  /\ edition = "mongo"
  /\ now < MaxOps
  /\ id = FreshId
  /\ id \in AlertIds
  /\ b.alertId = NoId \/ b.alertId = id
  /\ LET a == NewAlert(id, b.patientId, b.cand.type, b.cand.severity, b.cand.value, now)
     IN /\ alerts' = Insert(a)
        /\ inflight' = inflight \cup {a}
  /\ now' = now + 1
  /\ UNCHANGED <<calc, db, sessions, edition, last, dataVars>>

(* the request served by the Mongo edition alone *)
MongoPostSave(b, id) == MongoPostSaveHandler(b, id) /\ UNCHANGED twin

(* `if (patient) await sendNotification(...)`: a rejection lands in the route's *)
(* catch, which answers 500 before io.emit is reached                           *)
AfterNotify(op, a, args, ok, eventName, outcome, at) ==
  IF outcome = "throws"
    THEN Response(op, a.alertId, args, 500, NoEvents, outcome, at)
    ELSE Response(op, a.alertId, args, ok, <<Event(eventName, "all", a)>>, outcome, at)

(* the outcomes sendNotification can have for this alert's patient *)
OutcomeFor(a, outcome) ==
  IF a.patientId \in Registered THEN outcome \in NotifyOutcomes ELSE outcome = "none"

(* rest of the handler: Patient.findOne, sendNotification, io.emit, 201 *)
MongoPostFinishHandler(a, outcome) ==
  /\ edition = "mongo"
  /\ a \in inflight
  /\ OutcomeFor(a, outcome)
  /\ inflight' = inflight \ {a}
  /\ last' = AfterNotify("create", a, NoArgs, 201, "newAlert", outcome, a.createdAt)
  /\ Deliver
  /\ UNCHANGED <<calc, db, edition, alerts, now, dataVars>>

(* the request served by the Mongo edition alone *)
MongoPostFinish(a, outcome) == MongoPostFinishHandler(a, outcome) /\ UNCHANGED twin

(* ---- Mongo edition: PUT /api/alerts/:alertId/acknowledge ---- *)
MongoAcknowledgeHandler(id, userId) ==
  /\ edition = "mongo"
  /\ now < MaxOps
  /\ now' = now + 1
  /\ LET args == Args(userId, NoText, NoText, 0, NoText, NoText)
     IN IF id \notin Stored
          THEN /\ last' = NotFound("acknowledge", id, args, now)
               /\ UNCHANGED alerts
          ELSE LET a == acknowledge(alerts[id], userId, now)
               IN /\ alerts' = [alerts EXCEPT ![id] = a]
                  /\ last' = Response("acknowledge", id, args, 200,
                                      <<Event("alertUpdated", "all", a)>>, "none", now)
  /\ Deliver
  /\ UNCHANGED <<calc, db, edition, inflight, dataVars>>

(* the request served by the Mongo edition alone *)
MongoAcknowledge(id, userId) == MongoAcknowledgeHandler(id, userId) /\ UNCHANGED twin

(* ---- Mongo edition: PUT /api/alerts/:alertId/resolve ---- *)
MongoResolveHandler(id, userId, method, notes) ==
  /\ edition = "mongo"
  /\ now < MaxOps
  /\ now' = now + 1
  /\ LET args == Args(userId, method, notes, 0, NoText, NoText)
     IN IF id \notin Stored
          THEN /\ last' = NotFound("resolve", id, args, now)
               /\ UNCHANGED alerts
          ELSE LET a == resolve(alerts[id], userId, method, notes, now)
               IN /\ alerts' = [alerts EXCEPT ![id] = a]
                  /\ last' = Response("resolve", id, args, 200,
                                      <<Event("alertUpdated", "all", a)>>, "none", now)
  /\ Deliver
  /\ UNCHANGED <<calc, db, edition, inflight, dataVars>>

(* the request served by the Mongo edition alone *)
MongoResolve(id, userId, method, notes) == MongoResolveHandler(id, userId, method, notes) /\ UNCHANGED twin

(* ---- Mongo edition: PUT /api/alerts/:alertId/escalate ---- *)
(* alert.escalate() saves before the notification is attempted *)
MongoEscalate(id, level, escalatedTo, reason, outcome) ==
  /\ edition = "mongo"
  /\ now < MaxOps
  /\ now' = now + 1
  /\ LET args == Args(NoUser, NoText, NoText, level, escalatedTo, reason)
     IN IF id \notin Stored
          THEN /\ outcome = "none"
               /\ last' = NotFound("escalate", id, args, now)
               /\ UNCHANGED alerts
          ELSE LET a == escalate(alerts[id], level, escalatedTo, reason, now)
               IN /\ OutcomeFor(a, outcome)
                  /\ alerts' = [alerts EXCEPT ![id] = a]
                  /\ last' = AfterNotify("escalate", a, args, 200, "alertEscalated", outcome, now)
  /\ Deliver
  /\ UNCHANGED <<quietVars, edition, inflight, dataVars>>

(* ---- Postgres edition: POST /api/alerts ---- *)
(* alerts.alert_id is UNIQUE and alerts.patient_id REFERENCES patients; the   *)
(* table has no column for the data snapshot; a missing alertId is generated  *)
(* the INSERT of the create route on a given alerts table: a duplicate     *)
(* alert_id or an unknown patient_id violates a constraint                 *)
PgCreateOn(store, b, id, t) ==
  IF id \in DOMAIN store \/ b.patientId \notin Registered
    THEN [alerts |-> store, code |-> 500]
    ELSE [alerts |-> InsertInto(store, NewAlert(id, b.patientId, b.cand.type,
                                                b.cand.severity, NoValue, t)),
          code |-> 201]

PgPostAlert(b, id) ==
  /\ edition = "pg"
  /\ now < MaxOps
  /\ now' = now + 1
  /\ b.alertId = NoId \/ b.alertId = id
  /\ id \in Stored \/ (id = FreshId /\ id \in AlertIds)
  /\ b.alertId = NoId => id = FreshId
  /\ LET r == PgCreateOn(alerts, b, id, now)
     IN /\ alerts' = r.alerts
        /\ last' = IF r.code = 500
                     THEN Response("create", b.alertId, NoArgs, 500, NoEvents, "none", now)
                     ELSE Response("create", id, NoArgs, 201,
                                   <<Event("newAlert", "all", r.alerts[id])>>, "none", now)
  /\ Deliver
  /\ UNCHANGED <<quietVars, edition, inflight, dataVars>>

(* ---- Postgres edition: PUT /api/alerts/:alertId/acknowledge ---- *)
(* UPDATE ... WHERE alert_id = $2 AND status = 'active' *)
PgAcknowledgeOn(store, id, userId, t) ==
  IF id \in DOMAIN store /\ store[id].status = "active"
    THEN [alerts |-> [store EXCEPT ![id] = [@ EXCEPT !.status = "acknowledged",
                                                    !.acknowledgedBy = userId,
                                                    !.acknowledgedAt = t]],
          code |-> 200]
    ELSE [alerts |-> store, code |-> 404]

PgAcknowledge(id, userId) ==
  /\ edition = "pg"
  /\ now < MaxOps
  /\ now' = now + 1
  /\ LET args == Args(userId, NoText, NoText, 0, NoText, NoText)
         r == PgAcknowledgeOn(alerts, id, userId, now)
     IN /\ alerts' = r.alerts
        /\ last' = IF r.code = 200
                     THEN Response("acknowledge", id, args, 200,
                                   <<Event("alertAcknowledged", "all", r.alerts[id])>>,
                                   "none", now)
                     ELSE NotFound("acknowledge", id, args, now)
  /\ Deliver
  /\ UNCHANGED <<quietVars, edition, inflight, dataVars>>

(* ---- Postgres edition: PUT /api/alerts/:alertId/resolve ---- *)
(* UPDATE ... WHERE alert_id = $4; absent notes are stored as NULL *)
PgResolveOn(store, id, userId, method, notes, t) ==
  IF id \in DOMAIN store
    THEN [alerts |-> [store EXCEPT ![id] = [@ EXCEPT !.status = "resolved",
                                                    !.resolvedAt = t,
                                                    !.resolution = [resolvedBy |-> userId,
                                                                    resolvedAt |-> t,
                                                                    method |-> method,
                                                                    notes |-> notes]]],
          code |-> 200]
    ELSE [alerts |-> store, code |-> 404]

PgResolve(id, userId, method, notes) ==
  /\ edition = "pg"
  /\ now < MaxOps
  /\ now' = now + 1
  /\ LET args == Args(userId, method, notes, 0, NoText, NoText)
         r == PgResolveOn(alerts, id, userId, method, notes, now)
     IN /\ alerts' = r.alerts
        /\ last' = IF r.code = 200
                     THEN Response("resolve", id, args, 200,
                                   <<Event("alertResolved", "all", r.alerts[id])>>,
                                   "none", now)
                     ELSE NotFound("resolve", id, args, now)
  /\ Deliver
  /\ UNCHANGED <<quietVars, edition, inflight, dataVars>>

(* ---- Mongo edition: POST /api/health-data ---- *)
StatusOf(cands) ==
  IF cands = <<>> THEN "normal"
  ELSE IF \E i \in 1..Len(cands) : cands[i].severity = "critical" THEN "critical"
  ELSE "warning"

LastReadingOf(doc, t) ==
  [timestamp |-> t, heartRate |-> doc.heartRate, temperature |-> doc.temperature,
   spo2 |-> doc.spo2, bloodPressure |-> doc.bloodPressure]

(* the body of an ingestion request as the response record keeps it *)
IngestArgs(patientId, deviceId, r) ==
  [patientId |-> patientId, deviceId |-> deviceId, reading |-> r]

(* heartRate?.quality || 'good' *)
QualityOf(r) == IF "quality" \in DOMAIN r THEN r.quality ELSE "good"

(* an insert that replaces the newest stored reading of the same patient *)
InsertReadingUpsert(rs, doc) ==
  IF \E i \in 1..Len(rs) : rs[i].patientId = doc.patientId
    THEN LET k == CHOOSE i \in 1..Len(rs) :
                    /\ rs[i].patientId = doc.patientId
                    /\ \A j \in (i + 1)..Len(rs) : rs[j].patientId # doc.patientId
         IN [rs EXCEPT ![k] = [doc EXCEPT !.id = rs[k].id]]
    ELSE Append(rs, doc)

(* healthData.save() / INSERT INTO health_data: a new document or row *)
InsertReading(rs, doc) == Append(rs, doc)

MongoPostHealthData(patientId, deviceId, r) ==
  /\ edition = "mongo"
  /\ now < MaxOps
  /\ now' = now + 1
  /\ IF patientId = NoText \/ deviceId = NoText
       THEN /\ last' = Response("ingest", NoId, IngestArgs(patientId, deviceId, r), 400,
                                NoEvents, "none", now)
            /\ UNCHANGED dataVars
       ELSE LET known == patientId \in DOMAIN patients
                cands == IF known
                           THEN isAbnormalReading(patients[patientId].alertSettings, r)
                           ELSE <<>>
                doc == [id |-> <<now, 1>>,
                        patientId |-> patientId, deviceId |-> deviceId, timestamp |-> now,
                        heartRate |-> r.heartRate, temperature |-> r.temperature,
                        spo2 |-> r.spo2, bloodPressure |-> r.bloodPressure,
                        quality |-> QualityOf(r),
                        status |-> StatusOf(cands), alerts |-> cands]
                args == IngestArgs(patientId, deviceId, r)
                alertEvent == IF cands # <<>>
                                THEN <<Event("alert", patientId, doc)>> ELSE NoEvents
            IN /\ patients' = IF known
                                THEN [patients EXCEPT
                                        ![patientId].lastReading = LastReadingOf(doc, now)]
                                ELSE patients
               /\ devices' = IF deviceId \in DOMAIN devices
                               THEN [devices EXCEPT ![deviceId] =
                                       [lastSeen |-> now, status |-> "online",
                                        lastData |-> [LastReadingOf(doc, now) EXCEPT
                                                        !.bloodPressure = NoBloodPressure]]]
                               ELSE devices
               /\ IF ValidHealthData(doc)
                    THEN /\ readings' = InsertReading(readings, doc)
                         /\ last' = Response("ingest", NoId, args, 201,
                                       alertEvent \o <<Event("healthData", patientId, doc)>>, "none", now)
                    ELSE /\ readings' = readings
                         /\ last' = Response("ingest", NoId, args, 500, alertEvent, "none", now)
  /\ Deliver
  /\ UNCHANGED <<quietVars, alertVars>>

(* ---- Mongo edition: POST /api/predictions/risk ---- *)
(* HealthData.find({patientId, last 24 hours}).sort({timestamp: -1}): every   *)
(* stored reading is younger than a day on the request clock                   *)
Reverse(seq) == [i \in 1..Len(seq) |-> seq[Len(seq) + 1 - i]]
HistoryOf(patientId) == Reverse(SelectSeq(readings, LAMBDA d : d.patientId = patientId))

(* the prediction alert is built without alertId: `generated` tells whether the *)
(* pre('save') hook supplied one before validation, or the save was rejected     *)
MongoPredictRisk(patientId, generated, rnd) ==
  /\ edition = "mongo"
  /\ now < MaxOps
  /\ now' = now + 1
  /\ IF patientId = NoText
       THEN /\ generated
            /\ last' = Response("predict", NoId, NoArgs, 400, NoEvents, "none", now)
            /\ UNCHANGED alerts
       ELSE LET prediction == predictHealthRisk(patientId, HistoryOf(patientId), now, rnd)
                a == NewAlert(FreshId, patientId, "prediction",
                              IF prediction.riskLevel = "critical"
                                THEN "critical" ELSE "warning",
                              NoValue, now)
            IN IF prediction.riskLevel \in {"high", "critical"}
                 THEN IF generated
                        THEN /\ FreshId \in AlertIds
                             /\ alerts' = Insert(a)
                             /\ last' = Response("predict", FreshId, NoArgs, 200,
                                           <<Event("predictionAlert", patientId, a)>>, "none", now)
                        ELSE /\ last' = Response("predict", NoId, NoArgs, 500, NoEvents, "none", now)
                             /\ UNCHANGED alerts
                 ELSE /\ generated
                      /\ last' = Response("predict", NoId, NoArgs, 200, NoEvents, "none", now)
                      /\ UNCHANGED alerts
  /\ Deliver
  /\ UNCHANGED <<quietVars, edition, inflight, dataVars>>

ReadingsIn == {NormalReading, SevereReading}

RequestIds == Stored \cup {UnknownId}

Next ==
  \/ \E b \in Bodies : MongoPostSaveFail(b)
  \/ \E b \in Bodies, id \in AlertIds : MongoPostSave(b, id)
  \/ \E a \in inflight, o \in NotifyOutcomes \cup {"none"} : MongoPostFinish(a, o)
  \/ \E id \in RequestIds, u \in Users : MongoAcknowledge(id, u)
  \/ \E id \in RequestIds, u \in Users, m \in Methods, n \in NotesIn :
       MongoResolve(id, u, m, n)
  \/ \E id \in RequestIds, l \in Levels, e \in EscalatedTos, r \in Reasons,
        o \in NotifyOutcomes \cup {"none"} : MongoEscalate(id, l, e, r, o)
  \/ \E b \in Bodies, id \in AlertIds : PgPostAlert(b, id)
  \/ \E id \in RequestIds, u \in Users : PgAcknowledge(id, u)
  \/ \E id \in RequestIds, u \in Users, m \in Methods, n \in NotesIn :
       PgResolve(id, u, m, n)
  \/ \E p \in Patients, d \in Devices, r \in ReadingsIn : MongoPostHealthData(p, d, r)
  \/ \E p \in Patients, g \in BOOLEAN, rnd \in Nonces : MongoPredictRisk(p, g, rnd)

Spec == Init /\ [][Next]_vars

(* ---- every ingestion entry point, deletion and settings update ---- *)
OutOfRangeReading ==
  [heartRate |-> 300, temperature |-> 365, spo2 |-> 98, bloodPressure |-> NoBloodPressure]

PoorQualityReading ==
  [heartRate |-> 130, temperature |-> 365, spo2 |-> 98, bloodPressure |-> NoBloodPressure,
   quality |-> "poor"]

IngestReadings == {NormalReading, OutOfRangeReading, PoorQualityReading}
IngestPatients == Registered \cup {NoText}
IngestDevices == Devices \cup {NoText}

(* new HealthData(reading) of the batch route: schema defaults, no evaluation *)
BatchDoc(e, t, k) ==
  [id |-> <<t, k>>, patientId |-> e.patientId, deviceId |-> e.deviceId, timestamp |-> t,
   heartRate |-> e.reading.heartRate, temperature |-> e.reading.temperature,
   spo2 |-> e.reading.spo2, bloodPressure |-> e.reading.bloodPressure,
   quality |-> QualityOf(e.reading), status |-> "normal", alerts |-> <<>>]

(* patientId and deviceId are `required` in the schema *)
ValidBatchDoc(d) == d.patientId # NoText /\ d.deviceId # NoText /\ ValidHealthData(d)

RECURSIVE SaveEach(_, _, _, _)
SaveEach(rs, entries, t, k) ==
  IF k > Len(entries) THEN rs
  ELSE LET d == BatchDoc(entries[k], t, k)
       IN SaveEach(IF ValidBatchDoc(d) THEN InsertReading(rs, d) ELSE rs, entries, t, k + 1)

BatchEntries ==
  {IngestArgs("P1", "D1", NormalReading), IngestArgs(NoText, "D1", NormalReading),
   IngestArgs("P1", NoText, OutOfRangeReading)}

Batches == {<<e>> : e \in BatchEntries} \cup {<<e, f>> : e, f \in BatchEntries}

(* ---- Mongo edition: POST /api/health-data/batch ---- *)
(* each entry is saved on its own; a failed save is counted, the answer is 201 *)
MongoPostBatch(entries) ==
  /\ edition = "mongo"
  /\ now < MaxOps
  /\ now' = now + 1
  /\ readings' = SaveEach(readings, entries, now, 1)
  /\ last' = Response("batch", NoId, [entries |-> entries], 201, NoEvents, "none", now)
  /\ Deliver
  /\ UNCHANGED <<quietVars, alertVars, patients, devices>>

(* ---- Mongo edition: DELETE /api/health-data/:patientId ---- *)
MongoDeleteHealthData(patientId) ==
  /\ edition = "mongo"
  /\ now < MaxOps
  /\ now' = now + 1
  /\ readings' = SelectSeq(readings, LAMBDA d : d.patientId # patientId)
  /\ last' = Response("delete", NoId, [patientId |-> patientId], 200, NoEvents, "none", now)
  /\ Deliver
  /\ UNCHANGED <<quietVars, alertVars, patients, devices>>

(* ---- Mongo edition: PUT /api/patients/:patientId/alert-settings ---- *)
WideAlertSettings ==
  [DefaultAlertSettings EXCEPT !.heartRate = [min |-> 50, max |-> 140]]

MongoPutAlertSettings(patientId, alertSettings) ==
  /\ edition = "mongo"
  /\ now < MaxOps
  /\ now' = now + 1
  /\ IF patientId \in DOMAIN patients
       THEN /\ patients' = [patients EXCEPT ![patientId].alertSettings = alertSettings]
            /\ last' = Response("settings", NoId, [patientId |-> patientId], 200,
                                NoEvents, "none", now)
       ELSE /\ patients' = patients
            /\ last' = Response("settings", NoId, [patientId |-> patientId], 404,
                                NoEvents, "none", now)
  /\ Deliver
  /\ UNCHANGED <<quietVars, alertVars, readings, devices>>

(* ---- Postgres edition: POST /api/health-data ---- *)
(* a health_data row: no quality and no alerts column; status is the body's *)
(* status or 'normal'; device_id may be NULL                                 *)
PgRow(patientId, deviceId, r, t, k) ==
  [id |-> <<t, k>>, patientId |-> patientId, deviceId |-> deviceId, timestamp |-> t,
   heartRate |-> r.heartRate, temperature |-> r.temperature, spo2 |-> r.spo2,
   bloodPressure |-> r.bloodPressure, status |-> "normal"]

(* patient_id is NOT NULL and REFERENCES patients; device_id REFERENCES devices *)
PgInsertable(patientId, deviceId) ==
  /\ patientId \in Registered
  /\ deviceId = NoText \/ deviceId \in Devices

PgPostHealthData(patientId, deviceId, r) ==
  /\ edition = "pg"
  /\ now < MaxOps
  /\ now' = now + 1
  /\ LET args == IngestArgs(patientId, deviceId, r)
         row == PgRow(patientId, deviceId, r, now, 1)
     IN IF patientId = NoText
          THEN /\ last' = Response("ingest", NoId, args, 400, NoEvents, "none", now)
               /\ readings' = readings
          ELSE IF PgInsertable(patientId, deviceId)
                 THEN /\ readings' = InsertReading(readings, row)
                      /\ last' = Response("ingest", NoId, args, 201,
                                          <<Event("healthData", patientId, row)>>, "none", now)
                 ELSE /\ readings' = readings
                      /\ last' = Response("ingest", NoId, args, 500, NoEvents, "none", now)
  /\ Deliver
  /\ UNCHANGED <<quietVars, alertVars, patients, devices>>

RECURSIVE InsertEach(_, _, _, _, _, _)
InsertEach(rs, patientId, deviceId, rows, t, k) ==
  IF k > Len(rows) THEN rs
  ELSE InsertEach(InsertReading(rs, PgRow(patientId, deviceId, rows[k], t, k)),
                  patientId, deviceId, rows, t, k + 1)

Bulks == {<<>>, <<NormalReading>>, <<NormalReading, OutOfRangeReading>>}

(* ---- Postgres edition: POST /api/health-data/bulk ---- *)
(* no check of patientId: a missing one breaks NOT NULL at the first INSERT *)
PgPostBulk(patientId, deviceId, rows) ==
  /\ edition = "pg"
  /\ now < MaxOps
  /\ now' = now + 1
  /\ LET args == [patientId |-> patientId, deviceId |-> deviceId, entries |-> rows]
     IN IF Len(rows) = 0
          THEN /\ last' = Response("bulk", NoId, args, 400, NoEvents, "none", now)
               /\ readings' = readings
          ELSE IF PgInsertable(patientId, deviceId)
                 THEN /\ readings' = InsertEach(readings, patientId, deviceId, rows, now, 1)
                      /\ last' = Response("bulk", NoId, args, 201,
                                    <<Event("healthData", patientId,
                                            PgRow(patientId, deviceId, rows[Len(rows)],
                                                  now, Len(rows)))>>, "none", now)
                 ELSE /\ readings' = readings
                      /\ last' = Response("bulk", NoId, args, 500, NoEvents, "none", now)
  /\ Deliver
  /\ UNCHANGED <<quietVars, alertVars, patients, devices>>

NextIngest ==
  \/ \E p \in IngestPatients, d \in IngestDevices, r \in IngestReadings :
       MongoPostHealthData(p, d, r)
  \/ \E e \in Batches : MongoPostBatch(e)
  \/ \E p \in Registered : MongoDeleteHealthData(p)
  \/ \E p \in Registered : MongoPutAlertSettings(p, WideAlertSettings)
  \/ \E p \in Registered, g \in BOOLEAN, rnd \in Nonces : MongoPredictRisk(p, g, rnd)
  \/ \E p \in IngestPatients, d \in IngestDevices, r \in IngestReadings :
       PgPostHealthData(p, d, r)
  \/ \E p \in IngestPatients, d \in IngestDevices, rows \in Bulks : PgPostBulk(p, d, rows)

SpecIngest == Init /\ [][NextIngest]_vars

(* ---- both editions given the same requests, one after the other ---- *)
(* twin holds the alerts table of a Postgres deployment and the code of  *)
(* its last answer; alerts and last are the Mongo deployment's. Requests *)
(* name their alertId, so both editions speak of the same alerts.        *)
NamedBodies == {b \in Bodies : b.alertId \in AlertIds}

(* the request body whose alert the Mongo edition has saved *)
BodyOf(a) ==
  [alertId |-> a.alertId, patientId |-> a.patientId,
   cand |-> [type |-> a.type, severity |-> a.severity, value |-> a.value]]

BothPostSaveFail(b) ==
  /\ inflight = {}
  /\ MongoPostSaveFailHandler(b)
  /\ twin' = PgCreateOn(twin.alerts, b, b.alertId, now)

BothPostSave(b, id) ==
  /\ inflight = {}
  /\ MongoPostSaveHandler(b, id)
  /\ UNCHANGED twin

BothPostFinish(a, outcome) ==
  /\ MongoPostFinishHandler(a, outcome)
  /\ twin' = PgCreateOn(twin.alerts, BodyOf(a), a.alertId, a.createdAt)

BothAcknowledge(id, userId) ==
  /\ inflight = {}
  /\ MongoAcknowledgeHandler(id, userId)
  /\ twin' = PgAcknowledgeOn(twin.alerts, id, userId, now)

BothResolve(id, userId, method, notes) ==
  /\ inflight = {}
  /\ MongoResolveHandler(id, userId, method, notes)
  /\ twin' = PgResolveOn(twin.alerts, id, userId, method, notes, now)

InitBoth == Init /\ edition = "mongo"

NextBoth ==
  \/ \E b \in NamedBodies : BothPostSaveFail(b)
  \/ \E b \in NamedBodies, id \in AlertIds : BothPostSave(b, id)
  \/ \E a \in inflight, o \in NotifyOutcomes \cup {"none"} : BothPostFinish(a, o)
  \/ \E id \in AlertIds \cup {UnknownId}, u \in Users : BothAcknowledge(id, u)
  \/ \E id \in AlertIds \cup {UnknownId}, u \in Users, m \in Methods, n \in NotesIn :
       BothResolve(id, u, m, n)

SpecBoth == InitBoth /\ [][NextBoth]_vars

(* ---- server.js: socket sessions and the events emitted to them ---- *)
(* io.on('connection') *)
Connect(s) ==
  /\ ~sessions[s].connected
  /\ sessions' = [sessions EXCEPT ![s] = [connected |-> TRUE, rooms |-> {},
                                          received |-> <<>>]]
  /\ UNCHANGED <<serverVars, quietVars>>

(* socket.on('subscribe-patient'): socket.join('patient-' + patientId) *)
SubscribePatient(s, patientId) ==
  /\ sessions[s].connected
  /\ sessions' = [sessions EXCEPT ![s].rooms = @ \cup {patientId}]
  /\ UNCHANGED <<serverVars, quietVars>>

(* socket.on('unsubscribe-patient'): socket.leave('patient-' + patientId) *)
UnsubscribePatient(s, patientId) ==
  /\ sessions[s].connected
  /\ sessions' = [sessions EXCEPT ![s].rooms = @ \ {patientId}]
  /\ UNCHANGED <<serverVars, quietVars>>

(* socket.on('disconnect'): the handler logs; the socket is gone and with *)
(* it its room memberships                                                *)
Disconnect(s) ==
  /\ sessions[s].connected
  /\ sessions' = [sessions EXCEPT ![s] = [connected |-> FALSE, rooms |-> {},
                                          received |-> <<>>]]
  /\ UNCHANGED <<serverVars, quietVars>>

(* alert bodies sent while sockets are connected *)
SocketBodies ==
  {b \in Bodies : b.alertId = NoId /\ b.cand.type = "heartRate"
                    /\ b.cand.severity = "critical"}

NextSocket ==
  \/ \E s \in Sessions : Connect(s)
  \/ \E s \in Sessions, p \in Patients : SubscribePatient(s, p)
  \/ \E s \in Sessions, p \in Patients : UnsubscribePatient(s, p)
  \/ \E s \in Sessions : Disconnect(s)
  \/ \E d \in Devices, r \in ReadingsIn : MongoPostHealthData("P1", d, r)
  \/ \E b \in SocketBodies, id \in AlertIds : MongoPostSave(b, id)
  \/ \E a \in inflight, o \in {"sent", "none"} : MongoPostFinish(a, o)
  \/ \E d \in Devices, r \in ReadingsIn : PgPostHealthData("P1", d, r)
  \/ \E b \in SocketBodies, id \in AlertIds : PgPostAlert(b, id)

SpecSocket == Init /\ [][NextSocket]_vars

(* ---- database.js of the Postgres edition: connectDB and query ---- *)
(* the default of the parameter maxRetries *)
maxRetries == 3

(* module state at load: connectionString present or not, no promise yet *)
DbAtLoad(configured) ==
  [configured |-> configured, dbConnected |-> FALSE, connectPromise |-> "none",
   pc |-> "idle", attempts |-> 0, retryCount |-> 0,
   callers |-> [c \in Callers |-> "none"], lastQuery |-> "none"]

(* connectDB() called from outside: false without a connection string, the *)
(* promise already stored if there is one, else a new attempt is started   *)
(* and its promise stored; the caller awaits what was returned             *)
CallConnectDB(c) ==
  /\ edition = "pg"
  /\ db.callers[c] = "none"
  /\ db' = IF ~db.configured
             THEN [db EXCEPT !.callers[c] = "false"]
           ELSE IF db.connectPromise # "none"
             THEN [db EXCEPT !.callers[c] = "awaiting"]
           ELSE [db EXCEPT !.connectPromise = "pending", !.pc = "connecting",
                           !.attempts = @ + 1, !.retryCount = 0,
                           !.callers[c] = "awaiting"]
  /\ UNCHANGED <<serverVars, calc, sessions, twin>>

(* pool.connect() and SELECT NOW() succeeded: dbConnected = true, then the *)
(* migrations are awaited                                                  *)
ConnectSucceeds ==
  /\ db.pc = "connecting"
  /\ db' = [db EXCEPT !.dbConnected = TRUE, !.pc = "migrating"]
  /\ UNCHANGED <<serverVars, calc, sessions, twin>>

(* runMigrations() returned (it catches its own errors): return true *)
MigrationsDone ==
  /\ db.pc = "migrating"
  /\ db' = [db EXCEPT !.pc = "done", !.connectPromise = "true"]
  /\ UNCHANGED <<serverVars, calc, sessions, twin>>

(* the attempt threw: dbConnected = false, then either the 2 s delay before *)
(* the retry or return false                                                *)
ConnectFails ==
  /\ db.pc = "connecting"
  /\ db' = IF db.retryCount < maxRetries
             THEN [db EXCEPT !.dbConnected = FALSE, !.pc = "delay"]
             ELSE [db EXCEPT !.dbConnected = FALSE, !.pc = "done",
                             !.connectPromise = "false"]
  /\ UNCHANGED <<serverVars, calc, sessions, twin>>

(* after the delay: return connectDB(retryCount + 1, maxRetries). The call *)
(* finds connectPromise set and returns it, so the attempt's promise is    *)
(* resolved with a promise that follows the attempt's promise itself: it   *)
(* stays pending. Only with no promise stored would a new attempt start.   *)
RetryConnectDB ==
  /\ db.pc = "delay"
  /\ db' = IF db.connectPromise # "none"
             THEN [db EXCEPT !.pc = "chained"]
             ELSE [db EXCEPT !.connectPromise = "pending", !.pc = "connecting",
                             !.attempts = @ + 1, !.retryCount = @ + 1]
  /\ UNCHANGED <<serverVars, calc, sessions, twin>>

(* the awaited promise has settled: the caller's await returns its value *)
Settle(c) ==
  /\ db.callers[c] = "awaiting"
  /\ db.connectPromise \in {"true", "false"}
  /\ db' = [db EXCEPT !.callers[c] = db.connectPromise]
  /\ UNCHANGED <<serverVars, calc, sessions, twin>>

(* query(text, params): throws unless the pool exists and dbConnected *)
Query ==
  /\ edition = "pg"
  /\ db' = [db EXCEPT !.lastQuery = IF ~db.configured \/ ~db.dbConnected
                                      THEN "Database not connected" ELSE "rows"]
  /\ db' # db
  /\ UNCHANGED <<serverVars, calc, sessions, twin>>

InitConnect ==
  /\ Started
  /\ calc = NoCalc
  /\ db \in {DbAtLoad(configured) : configured \in BOOLEAN}
  /\ sessions = NoSessions
  /\ twin = NoTwin

NextConnect ==
  \/ \E c \in Callers : CallConnectDB(c)
  \/ ConnectSucceeds
  \/ MigrationsDone
  \/ ConnectFails
  \/ RetryConnectDB
  \/ \E c \in Callers : Settle(c)
  \/ Query

SpecConnect == InitConnect /\ [][NextConnect]_vars

(* ---- the evaluator and the scorers called directly on given arguments ---- *)
HeartRatesIn == {35, 50, 75, 105, 130}
TemperaturesIn == {365, 380, 390}
Spo2sIn == {98, 93, 88}
BloodPressuresIn ==
  {NoBloodPressure,
   [systolic |-> 150, diastolic |-> 85],
   [systolic |-> 120, diastolic |-> 95],
   [systolic |-> 150, diastolic |-> 125]}

VitalsIn ==
  [heartRate : HeartRatesIn, temperature : TemperaturesIn, spo2 : Spo2sIn,
   bloodPressure : BloodPressuresIn]

(* a config in the shape of Patient.alertSettings: warning band only *)
HeartRateOnlyThresholds ==
  [heartRate |-> [min |-> 50, max |-> 110, criticalMax |-> NoValue, criticalMin |-> NoValue]]

ThresholdsIn == {NoThresholds, HeartRateOnlyThresholds}

(* a reading sent with a heart rate and no other vital *)
HeartRateOnlyVitals ==
  [heartRate |-> 75, temperature |-> NoValue, spo2 |-> NoValue,
   bloodPressure |-> NoBloodPressure]

ReadingCalls ==
  [kind : {"reading"}, reading : VitalsIn \cup {HeartRateOnlyVitals},
   thresholds : ThresholdsIn]

(* what POST /api/health-data derives for a reading of a patient with the *)
(* given alertSettings: the candidates and the status from them            *)
EvaluateAtIngestion(alertSettings, reading) ==
  LET cands == isAbnormalReading(alertSettings, reading)
  IN [status |-> StatusOf(cands), alerts |-> cands]

Returned(fn, out) ==
  [calc EXCEPT !.fn = fn, !.out = out, !.prev = [fn |-> calc.fn, out |-> calc.out]]

CallAssessStatus ==
  /\ edition = "mongo"
  /\ calc.in.kind = "reading"
  /\ calc' = Returned("assessStatus", assessStatus(calc.in.reading, calc.in.thresholds))
  /\ UNCHANGED <<serverVars, db, sessions, twin>>

CallIsAbnormalReading ==
  /\ edition = "mongo"
  /\ calc.in.kind = "reading"
  /\ calc' = Returned("isAbnormalReading",
                      EvaluateAtIngestion(DefaultAlertSettings, calc.in.reading))
  /\ UNCHANGED <<serverVars, db, sessions, twin>>

(* stored readings as HealthData.find returns them, newest first: MaxRecent *)
(* at most of one kind, then MaxOlder at most of an older kind              *)
ScoredReadings ==
  [heartRate : {50, 75, 105}, temperature : {365, 374, 390}, spo2 : {98, 93, 88},
   bloodPressure : {NoBloodPressure, [systolic |-> 150, diastolic |-> 95]},
   status : {"normal", "critical"}]

OlderReadings ==
  {[heartRate |-> hr, temperature |-> 365, spo2 |-> 98,
    bloodPressure |-> NoBloodPressure, status |-> "normal"] : hr \in {75, 105}}

Repeat(r, k) == [i \in 1..k |-> r]

(* a document with a heart rate and no other vital, status normal *)
HeartRateOnlyReading ==
  [heartRate |-> 75, temperature |-> NoValue, spo2 |-> NoValue,
   bloodPressure |-> NoBloodPressure, status |-> "normal"]

Histories ==
  {Repeat(r, k) \o Repeat(o, m) :
     r \in ScoredReadings \cup {HeartRateOnlyReading}, k \in 0..MaxRecent,
     o \in OlderReadings, m \in 0..MaxOlder}

HistoryCalls == [kind : {"history"}, patientId : {"P1"}, h : Histories]

CallPredictHealthRisk(rnd) ==
  /\ edition = "mongo"
  /\ calc.in.kind = "history"
  /\ calc' = Returned("predictHealthRisk",
                      predictHealthRisk(calc.in.patientId, calc.in.h, now, rnd))
  /\ UNCHANGED <<serverVars, db, sessions, twin>>

(* the Postgres route scores the latest health_data row of the patient *)
CallCalculateRiskScore ==
  /\ edition = "pg"
  /\ calc.in.kind = "reading"
  /\ calc.in.thresholds = NoThresholds
  /\ calc' = Returned("calculateRiskScore", calculateRiskScore(calc.in.reading))
  /\ UNCHANGED <<serverVars, db, sessions, twin>>

CalcInputs == ReadingCalls \cup HistoryCalls

InitCalc ==
  /\ Started
  /\ calc \in [fn : {"none"}, in : CalcInputs, out : {NoOut},
               prev : {[fn |-> "none", out |-> NoOut]}]
  /\ db = DbReady
  /\ sessions = NoSessions
  /\ twin = NoTwin

NextCalc ==
  \/ CallAssessStatus
  \/ CallIsAbnormalReading
  \/ \E rnd \in Nonces : CallPredictHealthRisk(rnd)
  \/ CallCalculateRiskScore

SpecCalc == InitCalc /\ [][NextCalc]_vars

(* ======================= claims ======================= *)
(* every request of a run falls inside one suppression window: the request   *)
(* clock advances by one tick per request and MaxOps ticks are far less than *)
(* the recommended five minutes                                                *)
SameKey(a, b) == a.patientId = b.patientId /\ a.type = b.type

ActiveFor(patientId, type) ==
  {i \in Stored : /\ alerts[i].patientId = patientId
                  /\ alerts[i].type = type
                  /\ alerts[i].status = "active"}

(* this step is the handling of a request to route `op` *)
IsRequest(op) == now' = now + 1 /\ last'.op = op /\ last'.at = now

(* C1: two alert candidates raised for the same (patientId, type) inside the *)
(* suppression window leave one active alert of that (patientId, type), not  *)
(* two rows: the store never holds two active alerts with the same key       *)
C1_Deduplicated ==
  \A i, j \in Stored :
    (i # j /\ SameKey(alerts[i], alerts[j]) /\ alerts[i].status = "active")
      => alerts[j].status # "active"

(* C2: while two raise requests for the same (patientId, type) are in flight *)
(* together, the store holds at most one active alert of that key            *)
C2_AtomicFindOrCreate ==
  \A a, b \in inflight :
    (a # b /\ SameKey(a, b)) => Cardinality(ActiveFor(a.patientId, a.type)) <= 1

(* C3: resolved is terminal: no step takes a resolved alert to another status *)
C3_ResolvedTerminal ==
  [][\A i \in Stored :
       alerts[i].status = "resolved"
         => (i \in DOMAIN alerts' /\ alerts'[i].status = "resolved")]_vars

(* C4: acknowledge on a resolved alert answers with an error that is not the *)
(* not-found error and leaves the alert as it was; on an active alert it     *)
(* sets status acknowledged and records the actor and the time               *)
C4_AcknowledgeGuarded ==
  [][(IsRequest("acknowledge") /\ last'.alertId \in Stored)
       => LET id == last'.alertId
          IN /\ alerts[id].status = "resolved"
                  => (last'.code \notin {200, 404} /\ alerts' = alerts)
             /\ alerts[id].status = "active"
                  => /\ alerts'[id].status = "acknowledged"
                     /\ alerts'[id].acknowledgedBy = last'.args.userId
                     /\ alerts'[id].acknowledgedAt = now]_vars

(* C5: an escalated alert stays escalated with severity emergency under every *)
(* request other than a resolve                                               *)
C5_EscalatedSticky ==
  [][\A i \in Stored :
       (alerts[i].status = "escalated" /\ ~IsRequest("resolve"))
         => (alerts'[i].status = "escalated" /\ alerts'[i].severity = "emergency")]_vars

(* C6: escalate takes effect exactly from active or acknowledged, and then   *)
(* the alert is escalated, emergency, with the escalation metadata of the    *)
(* request; from any other status the alert is left unchanged                *)
C6_EscalateGuarded ==
  [][(IsRequest("escalate") /\ last'.alertId \in Stored)
       => LET id == last'.alertId
          IN IF alerts[id].status \in {"active", "acknowledged"}
               THEN /\ alerts'[id].status = "escalated"
                    /\ alerts'[id].severity = "emergency"
                    /\ alerts'[id].escalation =
                         [level |-> last'.args.level, escalatedAt |-> now,
                          escalatedTo |-> last'.args.escalatedTo,
                          reason |-> last'.args.reason]
               ELSE alerts' = alerts]_vars

(* C7: resolve on an active, acknowledged or escalated alert makes it        *)
(* resolved, records resolvedBy, resolvedAt, method and the notes given, and *)
(* changes neither type, patientId nor severity                              *)
C7_ResolveRecords ==
  [][(/\ IsRequest("resolve")
      /\ last'.alertId \in Stored
      /\ alerts[last'.alertId].status \in {"active", "acknowledged", "escalated"})
       => LET id == last'.alertId
              old == alerts[id]
              new == alerts'[id]
          IN /\ new.status = "resolved"
             /\ new.resolvedAt = now
             /\ new.resolution.resolvedBy = last'.args.userId
             /\ new.resolution.resolvedAt = now
             /\ new.resolution.method = last'.args.method
             /\ last'.args.notes # NoText => new.resolution.notes = last'.args.notes
             /\ new.type = old.type
             /\ new.patientId = old.patientId
             /\ new.severity = old.severity]_vars

(* a resolve request has just resolved an alert that had been escalated *)
C7_Witness ==
  /\ last.op = "resolve"
  /\ last.code = 200
  /\ last.args.notes # NoText
  /\ last.alertId \in Stored
  /\ alerts[last.alertId].status = "resolved"
  /\ alerts[last.alertId].resolution.notes = last.args.notes
  /\ alerts[last.alertId].severity = "emergency"

(* C8: over ingestions, predictions and alert requests no stored alert loses *)
(* severity rank, and an alert's status changes only in an acknowledge,      *)
(* resolve or escalate request on that alert                                 *)
C8_SeverityMonotone ==
  [][\A i \in Stored \cap DOMAIN alerts' :
       /\ SeverityRank(alerts'[i].severity) >= SeverityRank(alerts[i].severity)
       /\ alerts'[i].status # alerts[i].status
            => /\ last'.alertId = i
               /\ \/ IsRequest("acknowledge")
                  \/ IsRequest("resolve")
                  \/ IsRequest("escalate")]_vars

(* a prediction alert raised from ingested readings was escalated to emergency *)
C8_Witness ==
  /\ readings # <<>>
  /\ \E i \in Stored : /\ alerts[i].type = "prediction"
                       /\ alerts[i].severity = "emergency"
                       /\ alerts[i].status = "escalated"

(* C9: acknowledge, resolve and escalate on an alertId that is not stored    *)
(* answer not-found, change no alert, emit no event and send no notification *)
C9_UnknownAlertNotFound ==
  [][(/\ \/ IsRequest("acknowledge")
         \/ IsRequest("resolve")
         \/ IsRequest("escalate")
      /\ last'.alertId \notin Stored)
       => /\ last'.code = 404
          /\ alerts' = alerts
          /\ last'.events = NoEvents
          /\ last'.notified = "none"]_vars

(* an escalate for an unknown id was answered while the store holds alerts *)
C9_Witness ==
  /\ last.op = "escalate"
  /\ last.alertId \notin Stored
  /\ last.code = 404
  /\ Stored # {}

(* C10: when the notification fails during a raise or an escalate, the alert *)
(* is stored, the real-time event is published and the caller gets success   *)
C10_NotifyFailureTolerated ==
  (last.op \in {"create", "escalate"} /\ last.notified \in {"failed", "throws"})
    => /\ last.alertId \in Stored
       /\ last.code \in {200, 201}
       /\ last.events # NoEvents

(* C11: every successful raise, acknowledge, resolve or escalate emits one   *)
(* real-time event whose payload is the alert as stored by that request, and *)
(* calls the notification dispatcher once                                    *)
C11_TransitionSideEffects ==
  [][(/\ last' # last
      /\ last'.op \in {"create", "acknowledge", "resolve", "escalate"}
      /\ last'.code \in {200, 201})
       => /\ Len(last'.events) = 1
          /\ last'.alertId \in DOMAIN alerts'
          /\ last'.events[1].payload.alertId = last'.alertId
          /\ last'.events[1].payload.status = alerts'[last'.alertId].status
          /\ last'.notified \in {"sent", "failed"}]_vars

(* the status that follows from a list of per-vital alerts *)
DominantStatus(cands) ==
  IF \E i \in 1..Len(cands) : cands[i].severity = "critical" THEN "critical"
  ELSE IF Len(cands) > 0 THEN "warning"
  ELSE "normal"

(* C12: the overall status of an evaluation is critical when some per-vital *)
(* alert is critical, warning when there are alerts and none is critical,   *)
(* normal when there is no alert, whatever the order of the vitals          *)
C12_SeverityDominance ==
  calc.fn \in {"assessStatus", "isAbnormalReading"}
    => calc.out.status = DominantStatus(calc.out.alerts)

(* assessStatus met a critical vital and then a vital in its warning band *)
C12_Witness ==
  /\ calc.fn = "assessStatus"
  /\ calc.out.status = "critical"
  /\ \E i, j \in 1..Len(calc.out.alerts) :
       /\ i < j
       /\ calc.out.alerts[i].severity = "critical"
       /\ calc.out.alerts[j].severity = "warning"

(* C13: what ingestion derives for a reading (per-vital severities and the  *)
(* overall status) is the two-band classification that assessStatus gives   *)
(* the same reading under the same default bands                            *)
C13_IngestionIsTwoBand ==
  calc.fn = "isAbnormalReading"
    => calc.out = assessStatus(calc.in.reading, NoThresholds)

(* C14: a stored reading whose patient has no record, hence no thresholds,  *)
(* carries the status the default bands give it: 130 bpm is critical        *)
C14_DefaultsWithoutConfig ==
  \A i \in 1..Len(readings) :
    readings[i].patientId \notin DOMAIN patients
      => readings[i].status = assessStatus(readings[i], NoThresholds).status

VitalTypes == {"heartRate", "temperature", "spo2", "bloodPressure"}

(* the vital lies outside the warning band of thresholds t *)
OutsideWarningBand(type, r, t) ==
  CASE type = "heartRate" ->
         Gt(r.heartRate, t.heartRate.max) \/ Lt(r.heartRate, t.heartRate.min)
    [] type = "temperature" ->
         Gt(r.temperature, t.temperature.max) \/ Lt(r.temperature, t.temperature.min)
    [] type = "spo2" -> Lt(r.spo2, t.spo2.min)
    [] type = "bloodPressure" ->
         Gt(r.bloodPressure.systolic, t.bloodPressure.systolicMax)
           \/ Gt(r.bloodPressure.diastolic, t.bloodPressure.diastolicMax)

CandidatesOf(type, cands) == {i \in 1..Len(cands) : cands[i].type = type}

(* C15: an evaluation yields one candidate for each vital outside its       *)
(* warning band and none for a vital inside it; blood pressure yields one   *)
(* candidate when systolic or diastolic is too high, critical when either   *)
(* is beyond its critical limit                                             *)
C15_OneCandidatePerVital ==
  calc.fn \in {"assessStatus", "isAbnormalReading"}
    => LET t == IF calc.fn = "assessStatus"
                  THEN MergeThresholds(calc.in.thresholds) ELSE defaultThresholds
           r == calc.in.reading
           cands == calc.out.alerts
       IN /\ \A type \in VitalTypes :
               Cardinality(CandidatesOf(type, cands))
                 = IF OutsideWarningBand(type, r, t) THEN 1 ELSE 0
          /\ \A i \in CandidatesOf("bloodPressure", cands) :
               cands[i].severity =
                 IF \/ Gt(r.bloodPressure.systolic, t.bloodPressure.systolicCritical)
                    \/ Gt(r.bloodPressure.diastolic, t.bloodPressure.diastolicCritical)
                   THEN "critical" ELSE "warning"

Scorers == {"predictHealthRisk", "calculateRiskScore"}

(* score and level as each scorer names them in its result *)
ScoreOf(fn, out) == IF fn = "predictHealthRisk" THEN out.riskScore ELSE out.score
LevelOf(fn, out) == IF fn = "predictHealthRisk" THEN out.riskLevel ELSE out.level

(* the level bands of the risk score *)
LevelBand(score) ==
  IF score <= 29 THEN "low"
  ELSE IF score <= 49 THEN "medium"
  ELSE IF score <= 69 THEN "high"
  ELSE "critical"

(* C16: in every edition of the scorer the risk level is the band of the   *)
(* score: 0-29 low, 30-49 medium, 50-69 high, 70-100 critical               *)
C16_LevelBands ==
  calc.fn \in Scorers => LevelOf(calc.fn, calc.out) = LevelBand(ScoreOf(calc.fn, calc.out))

(* the sum of the weights a scorer added up, before clamping *)
RawSum(fn, in, out) ==
  IF fn = "predictHealthRisk"
    THEN TotalWeight(RiskContributions(in.h))
    ELSE LET weightOf == [x \in {out.factors[i] : i \in 1..Len(out.factors)} |-> x.weight]
         IN SumOf(weightOf, out.factors)

(* C17: the risk score lies in 0..100, and contributions that add up to    *)
(* more than 100 give exactly 100                                           *)
C17_ScoreClamped ==
  calc.fn \in Scorers
    => /\ ScoreOf(calc.fn, calc.out) \in 0..100
       /\ RawSum(calc.fn, calc.in, calc.out) > 100 => ScoreOf(calc.fn, calc.out) = 100

(* predictHealthRisk added up more than 100 and returned 100 *)
C17_Witness ==
  /\ calc.fn = "predictHealthRisk"
  /\ RawSum(calc.fn, calc.in, calc.out) > 100
  /\ calc.out.riskScore = 100

(* ten times the mean of field f over seq, for comparison with exact tenths *)
Total(seq, f) ==
  LET valueOf == [r \in {seq[i] : i \in 1..Len(seq)} |-> f[r]]
  IN SumOf(valueOf, seq)

Weigh(cond, weight) == IF cond THEN weight ELSE 0

(* the score as the sum of the weights of the conditions met by the window *)
(* of the ten newest readings (and the ten before them for the trend)       *)
AdditiveScore(h) ==
  LET recent == Slice(h, 1, 10)
      older == Slice(h, 11, 20)
      n == Len(recent)
      all == {h[i] : i \in 1..Len(h)}
      hr == Total(recent, [r \in all |-> r.heartRate])
      hrOlder == Total(older, [r \in all |-> r.heartRate])
      tp == Total(recent, [r \in all |-> r.temperature])
      ox == Total(recent, [r \in all |-> r.spo2])
      withBP == SelectSeq(recent, LAMBDA r : r.bloodPressure.systolic # NoValue)
      sys == Total(withBP, [r \in all |-> r.bloodPressure.systolic])
      dia == Total(withBP, [r \in all |-> r.bloodPressure.diastolic])
      flagged == Len(SelectSeq(recent, LAMBDA r : r.status \in {"warning", "critical"}))
  IN Weigh(hr > 100 * n, 20)
     + Weigh(Len(older) > 0 /\ 10 * hr * Len(older) > 11 * hrOlder * n, 10)
     + Weigh(tp > 375 * n, 25) + Weigh(tp > 372 * n /\ tp <= 375 * n, 10)
     + Weigh(ox < 92 * n, 30) + Weigh(ox < 95 * n /\ ox >= 92 * n, 15)
     + Weigh(Len(withBP) > 0 /\ (sys > 140 * Len(withBP) \/ dia > 90 * Len(withBP)), 20)
     + Weigh(10 * flagged > 3 * n, 15)

(* the scenario: ten readings, heart rate 105, 36.5 degrees, spo2 98, no   *)
(* blood pressure, status normal                                            *)
ElevatedHeartRateOnly ==
  Repeat([heartRate |-> 105, temperature |-> 365, spo2 |-> 98,
          bloodPressure |-> NoBloodPressure, status |-> "normal"], 10)

(* C18: for a window whose readings carry temperature and spo2 and whose    *)
(* mean heart rate is not below 60 the score is the                         *)
(* sum of the weights of the conditions met (20 for a mean heart rate above *)
(* 100, and the weight of every other condition), none suppressing another, *)
(* capped at 100; the scenario of ten readings with only the heart rate     *)
(* raised scores 20 and maps to low                                         *)
C18_AdditiveScore ==
  (calc.fn = "predictHealthRisk" /\ Len(calc.in.h) > 0
     /\ (\A i \in 1..Len(calc.in.h) :
           calc.in.h[i].temperature # NoValue /\ calc.in.h[i].spo2 # NoValue)
     /\ Total(Slice(calc.in.h, 1, 10),
              [r \in {calc.in.h[i] : i \in 1..Len(calc.in.h)} |-> r.heartRate])
          >= 60 * Len(Slice(calc.in.h, 1, 10)))
    => /\ calc.out.riskScore = Min(AdditiveScore(calc.in.h), 100)
       /\ calc.in.h = ElevatedHeartRateOnly
            => (calc.out.riskScore = 20 /\ calc.out.riskLevel = "low")

(* the scenario was scored *)
C18_Witness ==
  /\ calc.fn = "predictHealthRisk"
  /\ calc.in.h = ElevatedHeartRateOnly
  /\ calc.out.riskScore = 20
  /\ Len(calc.out.factors) = 1

HasFactor(out, name) == \E i \in 1..Len(out.factors) : out.factors[i].factor = name

(* C19: given fewer than ten readings the scorer adds no trend contribution, *)
(* lists the factor Insufficient Data with severity info and reports         *)
(* confidence 0.5; given ten or more it reports 0.85 and no such factor      *)
C19_InsufficientData ==
  calc.fn = "predictHealthRisk"
    => IF Len(calc.in.h) < 10
         THEN /\ ~HasFactor(calc.out, "Heart Rate Increasing")
              /\ \E i \in 1..Len(calc.out.factors) :
                   calc.out.factors[i] = Factor("Insufficient Data", "info")
              /\ calc.out.confidence = 50
         ELSE /\ calc.out.confidence = 85
              /\ ~HasFactor(calc.out, "Insufficient Data")

(* C20: a scorer called twice on the same arguments returns the same result *)
(* in every field, and the call changes nothing but the value returned      *)
C20_ScorerPure ==
  (calc.fn \in Scorers /\ calc.prev.fn = calc.fn) => calc.out = calc.prev.out

(* this step answered a request of one of the ingestion entry points *)
IngestionAnswered == last' # last /\ last'.op \in {"ingest", "batch", "bulk"}

(* the payload answered by this step lacks patientId or deviceId *)
LacksRequiredField ==
  IF last'.op = "batch"
    THEN \E k \in 1..Len(last'.args.entries) :
           \/ last'.args.entries[k].patientId = NoText
           \/ last'.args.entries[k].deviceId = NoText
    ELSE last'.args.patientId = NoText \/ last'.args.deviceId = NoText

(* C21: a payload without patientId or without deviceId is answered 400 by  *)
(* every ingestion entry point of both editions, and then no reading is     *)
(* stored, no patient or device record is updated and no event is published *)
C21_MissingFieldRejected ==
  [][(IngestionAnswered /\ LacksRequiredField)
       => /\ last'.code = 400
          /\ readings' = readings
          /\ patients' = patients
          /\ devices' = devices
          /\ last'.events = NoEvents]_vars

(* a numeric vital of the reading lies outside its absolute sensor range *)
OutOfSensorRange(r) ==
  \/ ~InRange(r.heartRate, 0, 250)
  \/ ~InRange(r.temperature, 300, 450)
  \/ ~InRange(r.spo2, 0, 100)
  \/ r.bloodPressure.systolic # NoValue /\ ~InRange(r.bloodPressure.systolic, 60, 250)
  \/ r.bloodPressure.diastolic # NoValue /\ ~InRange(r.bloodPressure.diastolic, 40, 150)

(* the reading stored by the single-reading request answered in this step *)
StoredByThisStep ==
  {j \in 1..Len(readings') : readings'[j].id = <<now, 1>>}

(* C22: a reading with a vital outside its sensor range, sent with both ids *)
(* for a registered patient, is accepted, stored with the value as sent and *)
(* flagged quality poor                                                     *)
C22_OutOfRangeFlagged ==
  [][(/\ last' # last
      /\ last'.op = "ingest"
      /\ last'.args.patientId \in Registered
      /\ last'.args.deviceId \in Devices
      /\ OutOfSensorRange(last'.args.reading))
       => /\ last'.code = 201
          /\ \E j \in StoredByThisStep :
               /\ readings'[j].heartRate = last'.args.reading.heartRate
               /\ "quality" \in DOMAIN readings'[j]
               /\ readings'[j].quality = "poor"]_vars

(* C23: a reading flagged quality poor is stored with a status and with     *)
(* alert candidates of severity at most warning, and a vital outside its    *)
(* warning band still has its candidate                                     *)
C23_PoorQualityCapped ==
  [][(/\ last' # last
      /\ last'.op = "ingest"
      /\ last'.code = 201
      /\ last'.args.patientId \in DOMAIN patients
      /\ QualityOf(last'.args.reading) = "poor")
       => \A j \in StoredByThisStep :
            /\ "alerts" \in DOMAIN readings'[j]
            /\ readings'[j].status # "critical"
            /\ \A i \in 1..Len(readings'[j].alerts) :
                 readings'[j].alerts[i].severity # "critical"
            /\ OutsideWarningBand("heartRate", last'.args.reading, defaultThresholds)
                 => \E i \in 1..Len(readings'[j].alerts) :
                      readings'[j].alerts[i].type = "heartRate"]_vars

C28_FailedIngestionUnchanged ==
  [][(last' # last /\ last'.op = "ingest" /\ edition = "mongo")
       => /\ last'.code >= 400
               => /\ last'.events = NoEvents
                  /\ patients' = patients
                  /\ devices' = devices
                  /\ readings' = readings
          /\ (\E k \in 1..Len(last'.events) : last'.events[k].name = "healthData")
               => StoredByThisStep # {}]_vars

(* C29: thresholds that override only the warning bounds of the heart rate  *)
(* (min 50, max 110) leave its critical band in force: a heart rate above   *)
(* the default criticalMax or below the default criticalMin, 130 or 35, is  *)
(* classified critical                                                      *)
C29_CriticalBandKept ==
  (/\ calc.fn = "assessStatus"
   /\ calc.in.thresholds = HeartRateOnlyThresholds
   /\ \/ calc.in.reading.heartRate > defaultThresholds.heartRate.criticalMax
      \/ calc.in.reading.heartRate < defaultThresholds.heartRate.criticalMin)
    => /\ calc.out.status = "critical"
       /\ \E i \in 1..Len(calc.out.alerts) :
            /\ calc.out.alerts[i].type = "heartRate"
            /\ calc.out.alerts[i].severity = "critical"

(* C30: a vital that no reading of the window carries adds nothing to the   *)
(* score and no factor: without spo2 there is no oxygen factor, without     *)
(* temperature no fever factor, and a non-empty window of readings with a   *)
(* normal heart rate and nothing else scores 0, level low                   *)
C30_AbsentVitalIgnored ==
  /\ calc.fn = "predictHealthRisk"
       => LET h == calc.in.h
          IN /\ (Len(h) > 0 /\ \A i \in 1..Len(h) : h[i].spo2 = NoValue)
                  => /\ ~HasFactor(calc.out, "Low Blood Oxygen")
                     /\ ~HasFactor(calc.out, "Reduced Oxygen Saturation")
             /\ (Len(h) > 0 /\ \A i \in 1..Len(h) : h[i].temperature = NoValue)
                  => /\ ~HasFactor(calc.out, "Fever Detected")
                     /\ ~HasFactor(calc.out, "Elevated Temperature")
             /\ (Len(h) > 0 /\ \A i \in 1..Len(h) : h[i] = HeartRateOnlyReading)
                  => calc.out.riskScore = 0 /\ calc.out.riskLevel = "low"
  /\ (calc.fn = "calculateRiskScore" /\ calc.in.reading = HeartRateOnlyVitals)
       => calc.out.score = 0 /\ calc.out.level = "low"

(* a step the connection attempt itself can take *)
ConnectProgress == ConnectSucceeds \/ MigrationsDone \/ ConnectFails \/ RetryConnectDB

(* C27: connectDB terminates. A pending attempt can always take a further   *)
(* step and a waiting caller is never left without one; there are at most   *)
(* maxRetries + 1 attempts; the promise resolves false only after the last  *)
(* of them, with dbConnected false, and true only with dbConnected true;    *)
(* every caller that got an answer got the value of the shared promise      *)
C27_ConnectTerminates ==
  /\ db.attempts <= maxRetries + 1
  /\ db.connectPromise = "pending" => ENABLED ConnectProgress
  /\ db.connectPromise = "false" => ~db.dbConnected /\ db.attempts = maxRetries + 1
  /\ db.connectPromise = "true" => db.dbConnected
  /\ \A c \in Callers :
       /\ db.callers[c] = "awaiting" => ENABLED (ConnectProgress \/ Settle(c))
       /\ (db.configured /\ db.callers[c] \in {"true", "false"})
            => db.callers[c] = db.connectPromise

(* C25: an event about a patient reaches only the sessions subscribed to    *)
(* that patient when it is emitted, so a session that is not subscribed to  *)
(* P receives nothing about P; and a step that emits nothing delivers       *)
(* nothing: no session receives an earlier event again after it subscribed, *)
(* unsubscribed or reconnected                                              *)
C25_OnlySubscribersReceive ==
  [][\A s \in Sessions :
       IF last' # last /\ last'.events # NoEvents
         THEN \A i \in 1..Len(sessions'[s].received) :
                sessions'[s].received[i].patientId \in sessions[s].rooms
         ELSE sessions'[s].received \in {sessions[s].received, <<>>}]_vars

(* C26: given the same sequence of create, acknowledge and resolve requests *)
(* on the same alertIds, the two editions answer every request alike        *)
(* (both succeed or both fail) and hold the same alerts in the same status  *)
C26_EditionsInterchangeable ==
  inflight = {}
    => /\ last.op \in {"create", "acknowledge", "resolve"}
            => (last.code < 400) = (twin.code < 400)
       /\ DOMAIN alerts = DOMAIN twin.alerts
       /\ \A id \in DOMAIN alerts : alerts[id].status = twin.alerts[id].status

====
